---- MODULE Spec2Model ----
(***************************************************************************)
(* A model of models.py of dreamerv3-torch: the two behaviour learners     *)
(* (ImagBehavior and the replay learner Behavior) as objects driven by     *)
(* calls of _train, the imagination rollout, the world model's preprocess  *)
(* and _train, the return normalizer RewardEMA, and the return estimator    *)
(* _compute_target, each under a specification of its own.                  *)
(*                                                                         *)
(* Numbers are exact rationals <<numerator, denominator>>.  A parameter    *)
(* group of a network is one rational.  A loss is the set of the terms     *)
(* that were added into it, the networks that evaluate the terms being      *)
(* external to models.py.  A Python exception ends the call at the line    *)
(* that raises it: every effect before that line is kept.                   *)
(***************************************************************************)
EXTENDS Integers, Sequences, FiniteSets, TLC

\* No exception raised, no object called.
None == "None"
\* An attribute the constructor did not set, an argument that was not passed.
Absent == <<>>
\* A local loss that was never assigned.
Unbound == {}

----------------------------------------------------------------------------
\* Bounds of the model.
MaxCalls == 3
MaxFreq == 3
MaxPeriod == 2

----------------------------------------------------------------------------
\* Exact rational arithmetic.
RECURSIVE GCD(_, _)
GCD(a, b) == IF b = 0 THEN a ELSE GCD(b, a % b)

Abs(a) == IF a < 0 THEN -a ELSE a

Rat(n, d) ==
  LET g == GCD(Abs(n), Abs(d))
      s == IF d < 0 THEN -1 ELSE 1
  IN  <<(s * n) \div g, (s * d) \div g>>

Zero == <<0, 1>>
One == <<1, 1>>
FromInt(i) == <<i, 1>>

RAdd(p, q) ==
  LET g == GCD(p[2], q[2])
  IN  Rat(p[1] * (q[2] \div g) + q[1] * (p[2] \div g), (p[2] \div g) * q[2])

RNeg(p) == <<-p[1], p[2]>>
RSub(p, q) == RAdd(p, RNeg(q))

RMul(p, q) ==
  LET a == Rat(p[1], q[2])
      b == Rat(q[1], p[2])
  IN  <<a[1] * b[1], a[2] * b[2]>>

RLe(p, q) ==
  LET g == GCD(p[2], q[2])
  IN  p[1] * (q[2] \div g) <= q[1] * (p[2] \div g)

RMax(p, q) == IF RLe(p, q) THEN q ELSE p

----------------------------------------------------------------------------
\* torch.quantile(input, q), linear interpolation between the two nearest
\* order statistics of the flattened batch x (a sequence of integers).
Quantile(x, q) ==
  LET s == SortSeq(x, LAMBDA a, b : a < b)
      pos == RMul(q, FromInt(Len(s) - 1))
      lo == pos[1] \div pos[2]
      hi == IF lo * pos[2] = pos[1] THEN lo ELSE lo + 1
      frac == RSub(pos, FromInt(lo))
  IN  RAdd(FromInt(s[lo + 1]), RMul(frac, FromInt(s[hi + 1] - s[lo + 1])))

\* The quantile levels in descending order.
RewardEMA_range_Descending == <<Rat(95, 100), Rat(5, 100)>>

\* RewardEMA.__init__: self.range and the default alpha.
RewardEMA_range == <<Rat(5, 100), Rat(95, 100)>>
RewardEMA_alpha == Rat(1, 100)

\* A normalizer that returns the spread of the buffer without the clip.
RewardEMA_NoClip(alpha, x, ema_vals) ==
  LET x_quantile == [i \in 1..2 |-> Quantile(x, RewardEMA_range[i])]
      new == [i \in 1..2 |->
                RAdd(RMul(alpha, x_quantile[i]),
                     RMul(RSub(One, alpha), ema_vals[i]))]
  IN  [ema_vals |-> new,
       scale |-> RSub(new[2], new[1]),
       offset |-> new[1]]

\* RewardEMA.__call__(x, ema_vals): the buffer as updated in place, and the
\* returned (offset, scale).
RewardEMA(alpha, x, ema_vals) ==
  LET x_quantile == [i \in 1..2 |-> Quantile(x, RewardEMA_range[i])]
      new == [i \in 1..2 |->
                RAdd(RMul(alpha, x_quantile[i]),
                     RMul(RSub(One, alpha), ema_vals[i]))]
  IN  [ema_vals |-> new,
       scale |-> RMax(RSub(new[2], new[1]), One),
       offset |-> new[1]]

----------------------------------------------------------------------------
\* The configuration: the keys of config that _train and its callees read.
ImagGradients == {"dynamics", "reinforce", "both"}
MfGradients == {"dynamics", "reinforce", "both", "td3"}
Unrecognized == "other"

Configs ==
  [slow_target : BOOLEAN,
   slow_target_update : 1..MaxPeriod,
   slow_target_fraction : {Rat(1, 4), Rat(1, 2)},
   mf_policy_freq : 1..MaxFreq,
   imag_gradient : ImagGradients \cup {Unrecognized},
   mf_gradient : MfGradients \cup {Unrecognized},
   reward_EMA : BOOLEAN,
   mf_reg : BOOLEAN]

\* The flattened lambda-return targets of one call, the batch RewardEMA sees.
Batches == {<<0, 20>>, <<20, 20>>}

\* The names the optimizers are constructed with.
OptNames == {"actor", "value", "mf_actor", "mf_value_1", "mf_value_2"}

VARIABLES
  config,   \* the configuration both learners were constructed with
  imag,     \* the ImagBehavior object
  mf,       \* the Behavior (replay) object
  call,     \* what the most recent _train call did
  calls,    \* how many _train calls each object has received
  roll,     \* the imagination rollout in progress (the static_scan loop)
  wm,       \* the world model, its caller's raw batch and its last call
  norm,     \* a RewardEMA object, its ema_vals buffer and its last call
  est       \* one _compute_target call: its arguments, then its results

bvars == <<config, imag, mf, call, calls>>
vars == <<config, imag, mf, call, calls, roll, wm, norm, est>>

----------------------------------------------------------------------------
\* tools.Optimizer.__call__(loss, params): one update step of the parameters.
Optimizer(p) == RAdd(p, One)

\* d.data = mix * s.data + (1 - mix) * d.data
\* A hard copy of the live parameter.
Blend_HardCopy(mix, s, d) == s

\* d.data = mix * s.data + (1 - mix) * d.data
Blend(mix, s, d) == RAdd(RMul(mix, s), RMul(RSub(One, mix), d))

\* ImagBehavior.__init__
ImagInit(cfg) ==
  [actor |-> Zero,
   value |-> Zero,
   slow_value |-> IF cfg.slow_target THEN Zero ELSE Absent,
   updates |-> IF cfg.slow_target THEN 0 ELSE Absent,
   ema_vals |-> IF cfg.reward_EMA THEN <<Zero, Zero>> ELSE Absent]

\* Behavior.__init__ (the two critics are initialised independently, each slow
\* target is a deep copy of its critic)
MfInit(cfg) ==
  [actor |-> Zero,
   value_1 |-> Zero,
   value_2 |-> One,
   slow_value_1 |-> IF cfg.slow_target THEN Zero ELSE Absent,
   slow_value_2 |-> IF cfg.slow_target THEN One ELSE Absent,
   updates |-> IF cfg.slow_target THEN 0 ELSE Absent,
   total_it |-> 0,
   ema_vals |-> IF cfg.reward_EMA THEN <<Zero, Zero>> ELSE Absent]

NoSteps == [o \in OptNames |-> 0]

NoCall ==
  [obj |-> None, n |-> 0, x |-> Absent, raised |-> None,
   returned_loss |-> Unbound, actor_loss |-> Unbound, value_loss |-> Unbound,
   slow_evaluated |-> FALSE, steps |-> NoSteps]

----------------------------------------------------------------------------
\* ImagBehavior._update_slow_target
ImagUpdateSlowTarget(self) ==
  IF config.slow_target
  THEN [self EXCEPT
          !.slow_value =
             IF self.updates % config.slow_target_update = 0
             THEN Blend(config.slow_target_fraction, self.value, @)
             ELSE @,
          !.updates = @ + 1]
  ELSE self

\* The mode dispatch of ImagBehavior._compute_actor_loss: the terms of
\* -weights[:-1] * actor_target, adv being bound only under reward_EMA.
ImagActorTarget(ema) ==
  CASE config.imag_gradient = "dynamics" ->
         IF config.reward_EMA
         THEN [raised |-> None,
               loss |-> {<<"-weights*adv", ema.offset, ema.scale>>}]
         ELSE [raised |-> "UnboundLocalError", loss |-> Unbound]
    [] config.imag_gradient = "reinforce" ->
         [raised |-> None,
          loss |-> {<<"-weights*log_prob(action)*(target-value.mode)">>}]
    [] config.imag_gradient = "both" ->
         [raised |-> None,
          loss |-> {<<"-weights*mix*target">>,
                    <<"-weights*(1-mix)*log_prob(action)*(target-value.mode)">>}]
    [] OTHER ->
         [raised |-> "NotImplementedError", loss |-> Unbound]

\* ImagBehavior._compute_actor_loss: the object after the call (the EMA buffer
\* is updated in place before the dispatch), what was raised, the loss.
ImagComputeActorLoss(self, x) ==
  LET ema == IF config.reward_EMA
             THEN RewardEMA(RewardEMA_alpha, x, self.ema_vals)
             ELSE Absent
      r == ImagActorTarget(ema)
  IN  [self |-> IF config.reward_EMA
                THEN [self EXCEPT !.ema_vals = ema.ema_vals]
                ELSE self,
       raised |-> r.raised,
       loss |-> r.loss]

EntropyTerm == <<"-entropy*actor_ent">>
MfRegTerm == <<"mf_reg_scale*kl(actor,mf_policy)">>

\* ImagBehavior._train, lines 313-319: the entropy bonus and the optional
\* model-free regularisation added to the loss _compute_actor_loss returned.
ImagActorLoss(returned) ==
  returned \cup {EntropyTerm} \cup (IF config.mf_reg THEN {MfRegTerm} ELSE {})

\* ImagBehavior._train, lines 323-333: the critic loss; self._slow_value is
\* evaluated before the configuration is tested.
ImagValueLoss(self) ==
  IF self.slow_value = Absent
  THEN [raised |-> "AttributeError", loss |-> Unbound, slow_evaluated |-> FALSE]
  ELSE [raised |-> None,
        loss |-> {<<"-value.log_prob(target)">>} \cup
                 (IF config.slow_target
                  THEN {<<"-value.log_prob(slow_value.mode)">>}
                  ELSE {}),
        slow_evaluated |-> TRUE]

\* ImagBehavior._train(start, objective, mf_policy); x is the batch of targets
\* the rollout and the objective produce.
ImagTrain(x) ==
  /\ call.raised = None
  /\ calls["imag"] + calls["mf"] < MaxCalls
  /\ \E a \in {ImagComputeActorLoss(ImagUpdateSlowTarget(imag), x)} :
     \E v \in {ImagValueLoss(a.self)} :
     \E c \in {[NoCall EXCEPT !.obj = "imag", !.n = calls["imag"] + 1,
                              !.x = x]} :
       IF a.raised # None
       THEN /\ imag' = a.self
            /\ call' = [c EXCEPT !.raised = a.raised]
       ELSE IF v.raised # None
       THEN /\ imag' = a.self
            /\ call' = [c EXCEPT !.raised = v.raised,
                                 !.returned_loss = a.loss,
                                 !.actor_loss = ImagActorLoss(a.loss)]
       ELSE /\ imag' = [a.self EXCEPT !.actor = Optimizer(@),
                                      !.value = Optimizer(@)]
            /\ call' = [c EXCEPT !.returned_loss = a.loss,
                                 !.actor_loss = ImagActorLoss(a.loss),
                                 !.value_loss = v.loss,
                                 !.slow_evaluated = v.slow_evaluated,
                                 !.steps = [NoSteps EXCEPT !["actor"] = 1,
                                                           !["value"] = 1]]
  /\ calls' = [calls EXCEPT !["imag"] = @ + 1]
  /\ UNCHANGED <<config, mf, roll, wm, norm, est>>

----------------------------------------------------------------------------
\* Mutant: the counter is tested after it is incremented.
MfUpdateSlowTarget_TestAfterIncrement(self) ==
  IF config.slow_target
  THEN [self EXCEPT
          !.slow_value_1 =
             IF (self.updates + 1) % config.slow_target_update = 0
             THEN Blend(config.slow_target_fraction, self.value_1, @)
             ELSE @,
          !.slow_value_2 =
             IF (self.updates + 1) % config.slow_target_update = 0
             THEN Blend(config.slow_target_fraction, self.value_2, @)
             ELSE @,
          !.updates = @ + 1]
  ELSE self

\* Behavior._update_slow_target
MfUpdateSlowTarget(self) ==
  IF config.slow_target
  THEN [self EXCEPT
          !.slow_value_1 =
             IF self.updates % config.slow_target_update = 0
             THEN Blend(config.slow_target_fraction, self.value_1, @)
             ELSE @,
          !.slow_value_2 =
             IF self.updates % config.slow_target_update = 0
             THEN Blend(config.slow_target_fraction, self.value_2, @)
             ELSE @,
          !.updates = @ + 1]
  ELSE self

TD3Term == <<"-value_1(get_feat(img_step(state,policy.sample))).mean">>

\* The mode dispatch of Behavior._compute_actor_loss.
MfActorTarget(ema) ==
  CASE config.mf_gradient = "dynamics" ->
         IF config.reward_EMA
         THEN [raised |-> None,
               loss |-> {<<"-weights*adv", ema.offset, ema.scale>>}]
         ELSE [raised |-> "UnboundLocalError", loss |-> Unbound]
    [] config.mf_gradient = "reinforce" ->
         [raised |-> None,
          loss |-> {<<"-weights*log_prob(action)*(target-value_1.mode)">>}]
    [] config.mf_gradient = "both" ->
         [raised |-> None,
          loss |-> {<<"-weights*mix*target">>,
                    <<"-weights*(1-mix)*log_prob(action)*(target-value_1.mode)">>}]
    [] config.mf_gradient = "td3" ->
         [raised |-> None, loss |-> {TD3Term}]
    [] OTHER ->
         [raised |-> "NotImplementedError", loss |-> Unbound]

\* Behavior._compute_actor_loss
MfComputeActorLoss(self, x) ==
  LET ema == IF config.reward_EMA
             THEN RewardEMA(RewardEMA_alpha, x, self.ema_vals)
             ELSE Absent
      r == MfActorTarget(ema)
  IN  [self |-> IF config.reward_EMA
                THEN [self EXCEPT !.ema_vals = ema.ema_vals]
                ELSE self,
       raised |-> r.raised,
       loss |-> r.loss]

\* Behavior._train, line 563: the gate on computing the actor loss.
ActorLossDue(self) == self.total_it % config.mf_policy_freq = 0

\* Behavior._train, line 628: the gate on stepping the actor optimizer.
ActorStepDue(self) == self.total_it % 2 = 0

\* An actor step that takes whatever the local holds.
ActorStepRaises_Never(self, actor_loss) == FALSE

\* self._actor_opt(actor_loss, ...) behind the gate of line 628: reading the
\* local actor_loss raises UnboundLocalError when no statement of this call
\* has assigned it, before the optimizer is entered.
ActorStepRaises(self, actor_loss) ==
  ActorStepDue(self) /\ actor_loss = Unbound

\* Mutant: the entropy bonus is not subtracted.
MfActorLoss_NoEntropy(returned) == returned

\* Behavior._train, lines 572-573: the entropy bonus subtracted from the loss
\* _compute_actor_loss returned, whatever the mode.
MfActorLoss(returned) == returned \cup {EntropyTerm}

\* Behavior._train, lines 599-613: the twin-critic loss; both slow targets are
\* evaluated before the configuration is tested.
MfValueLoss(self) ==
  IF self.slow_value_1 = Absent \/ self.slow_value_2 = Absent
  THEN [raised |-> "AttributeError", loss |-> Unbound, slow_evaluated |-> FALSE]
  ELSE [raised |-> None,
        loss |-> {<<"-value_1.log_prob(target)">>,
                  <<"-value_2.log_prob(target)">>} \cup
                 (IF config.slow_target
                  THEN {<<"-value_1.log_prob(slow_value_1.mode)">>,
                        <<"-value_2.log_prob(slow_value_2.mode)">>}
                  ELSE {}),
        slow_evaluated |-> TRUE]

\* Behavior._train(start, data); x is the batch of targets computed from data.
MfTrain(x) ==
  /\ call.raised = None
  /\ calls["imag"] + calls["mf"] < MaxCalls
  /\ \E s \in {[MfUpdateSlowTarget(mf) EXCEPT !.total_it = @ + 1]} :
     \E a \in {IF ActorLossDue(s)
               THEN MfComputeActorLoss(s, x)
               ELSE [self |-> s, raised |-> None, loss |-> Unbound]} :
     \E actor_loss \in {IF ActorLossDue(s) /\ a.raised = None
                        THEN MfActorLoss(a.loss)
                        ELSE Unbound} :
     \E v \in {MfValueLoss(a.self)} :
     \E c \in {[NoCall EXCEPT !.obj = "mf", !.n = calls["mf"] + 1, !.x = x,
                              !.returned_loss = a.loss,
                              !.actor_loss = actor_loss]} :
       IF a.raised # None
       THEN /\ mf' = a.self
            /\ call' = [c EXCEPT !.raised = a.raised]
       ELSE IF v.raised # None
       THEN /\ mf' = a.self
            /\ call' = [c EXCEPT !.raised = v.raised]
       ELSE IF ActorStepRaises(s, actor_loss)
       THEN /\ mf' = a.self
            /\ call' = [c EXCEPT !.raised = "UnboundLocalError",
                                 !.value_loss = v.loss,
                                 !.slow_evaluated = v.slow_evaluated]
       ELSE /\ mf' = [a.self EXCEPT
                        !.actor = IF ActorStepDue(s) THEN Optimizer(@) ELSE @,
                        !.value_1 = Optimizer(@),
                        !.value_2 = Optimizer(@)]
            /\ call' = [c EXCEPT
                          !.value_loss = v.loss,
                          !.slow_evaluated = v.slow_evaluated,
                          !.steps =
                             [NoSteps EXCEPT
                                !["mf_actor"] =
                                   IF ActorStepDue(s) THEN 1 ELSE 0,
                                !["mf_value_1"] = 1,
                                !["mf_value_2"] = 1]]
  /\ calls' = [calls EXCEPT !["mf"] = @ + 1]
  /\ UNCHANGED <<config, imag, roll, wm, norm, est>>

----------------------------------------------------------------------------
RollIdle == [pc |-> "idle"]
WmIdle == [pc |-> "idle", ncalls |-> 0]
NormIdle == [pc |-> "idle"]
EstIdle == [pc |-> "idle"]

\* Both learners as constructed from one configuration.
Init ==
  /\ config \in Configs
  /\ imag = ImagInit(config)
  /\ mf = MfInit(config)
  /\ call = NoCall
  /\ calls = [o \in {"imag", "mf"} |-> 0]
  /\ roll = RollIdle
  /\ wm = WmIdle
  /\ norm = NormIdle
  /\ est = EstIdle

Next ==
  \/ \E x \in Batches : ImagTrain(x)
  \/ \E x \in Batches : MfTrain(x)

Spec == Init /\ [][Next]_vars

----------------------------------------------------------------------------
\* Steps of the two _train operations, and the configurations under which
\* nothing but the two actor gates decides how a Behavior._train call ends.
ImagStep == calls'["imag"] = calls["imag"] + 1
MfStep == calls'["mf"] = calls["mf"] + 1

ImagModeRuns ==
  /\ config.imag_gradient \in ImagGradients
  /\ config.imag_gradient = "dynamics" => config.reward_EMA

MfModeRuns ==
  /\ config.mf_gradient \in MfGradients
  /\ config.mf_gradient = "dynamics" => config.reward_EMA

\* C1: in call n of Behavior._train, counted from construction, the actor
\* loss is computed iff n is a multiple of mf_policy_freq, and the actor
\* optimizer is stepped iff n is even.
C1_ActorGates ==
  (call.obj = "mf" /\ config.slow_target /\ MfModeRuns) =>
    /\ (call.returned_loss # Unbound) <=> (call.n % config.mf_policy_freq = 0)
    /\ (call.steps["mf_actor"] = 1) <=> (call.n % 2 = 0)

\* C2: every call of Behavior._train steps both critic optimizers exactly
\* once, whatever happened to the actor in that call.
C2_CriticsEveryCall ==
  (call.obj = "mf" /\ config.slow_target /\ MfModeRuns) =>
    /\ call.steps["mf_value_1"] = 1
    /\ call.steps["mf_value_2"] = 1

\* C3: with slow_target enabled and period k, every call of
\* _update_slow_target (one per _train call, of either learner) adds one to
\* the step counter, blends the slow-target parameters when the counter before
\* the call is a multiple of k, and leaves them unchanged otherwise.
C3_SlowTargetPeriod ==
  [][config.slow_target =>
       /\ ImagStep =>
            /\ imag'.updates = imag.updates + 1
            /\ imag'.slow_value =
                 IF imag.updates % config.slow_target_update = 0
                 THEN Blend(config.slow_target_fraction, imag.value,
                            imag.slow_value)
                 ELSE imag.slow_value
       /\ MfStep =>
            /\ mf'.updates = mf.updates + 1
            /\ mf'.slow_value_1 =
                 IF mf.updates % config.slow_target_update = 0
                 THEN Blend(config.slow_target_fraction, mf.value_1,
                            mf.slow_value_1)
                 ELSE mf.slow_value_1
            /\ mf'.slow_value_2 =
                 IF mf.updates % config.slow_target_update = 0
                 THEN Blend(config.slow_target_fraction, mf.value_2,
                            mf.slow_value_2)
                 ELSE mf.slow_value_2]_vars

\* Three calls with period 2: a blend that moved the slow targets, after a
\* call that skipped the blend.
C3_Witness ==
  /\ config.slow_target
  /\ config.slow_target_update = 2
  /\ mf.updates = 3
  /\ mf.slow_value_1 = One
  /\ mf.value_1 = FromInt(3)

\* C4: the slow target is optional: with slow_target disabled _train of either
\* learner runs to completion, its critic loss has the negative
\* log-likelihood terms of the target alone, and no slow-target network is
\* evaluated.
C4_SlowTargetOptional ==
  /\ (call.obj = "imag" /\ ~config.slow_target /\ ImagModeRuns) =>
       /\ call.raised = None
       /\ call.value_loss = {<<"-value.log_prob(target)">>}
       /\ ~call.slow_evaluated
  /\ (call.obj = "mf" /\ ~config.slow_target /\ MfModeRuns
        /\ config.mf_policy_freq = 1) =>
       /\ call.raised = None
       /\ call.value_loss = {<<"-value_1.log_prob(target)">>,
                             <<"-value_2.log_prob(target)">>}
       /\ ~call.slow_evaluated

\* C5: with an unrecognized actor-loss mode a _train call ends in a fatal
\* error and leaves every field of the learner (parameters, slow targets,
\* step counter, total_it, EMA buffer) as it was before the call.
C5_NoPartialResult ==
  [][/\ (ImagStep /\ config.imag_gradient = Unrecognized) =>
          (call'.raised # None /\ imag' = imag)
     /\ (MfStep /\ config.mf_gradient = Unrecognized) =>
          (call'.raised # None /\ mf' = mf)]_vars

\* C6 (as stated): under td3 a call of Behavior._train that computes the actor
\* loss has exactly the negated critic-1 value as its loss, and leaves the EMA
\* buffer alone.
C6_TD3LossOnly ==
  [][(MfStep /\ config.mf_gradient = "td3" /\ call'.returned_loss # Unbound) =>
       /\ call'.actor_loss = {TD3Term}
       /\ mf'.ema_vals = mf.ema_vals]_vars

\* C6 (amended): under td3 a call of Behavior._train that computes the actor
\* loss gets exactly the negated critic-1 value back from _compute_actor_loss;
\* _train then subtracts the entropy bonus from it, and the EMA buffer is
\* updated from the call's targets when reward_EMA is on (and does not exist
\* otherwise).
C6_TD3LossAmended ==
  [][(MfStep /\ config.mf_gradient = "td3" /\ call'.returned_loss # Unbound) =>
       /\ call'.returned_loss = {TD3Term}
       /\ call'.actor_loss = {TD3Term, EntropyTerm}
       /\ mf'.ema_vals =
            IF config.reward_EMA
            THEN RewardEMA(RewardEMA_alpha, call'.x, mf.ema_vals).ema_vals
            ELSE Absent]_vars

\* A td3 call that computed the loss and moved the EMA buffer.
C6_Witness ==
  /\ call.obj = "mf"
  /\ config.mf_gradient = "td3"
  /\ config.reward_EMA
  /\ call.actor_loss = {TD3Term, EntropyTerm}
  /\ mf.ema_vals # <<Zero, Zero>>

----------------------------------------------------------------------------
(***************************************************************************)
(* ImagBehavior._imagine: the rollout as the loop of tools.static_scan.    *)
(* A latent state, a feature and an action are terms over the start        *)
(* states: the dynamics and the policy are networks outside models.py, so  *)
(* nothing is assumed of them but that they are functions.  A tensor with  *)
(* a leading batch axis is a sequence over the batch.                      *)
(***************************************************************************)
MaxHorizon == 3

\* The start states WorldModel._train hands over, batch x time.
StartShapes == {<<1, 1>>, <<1, 2>>, <<2, 1>>}
Starts ==
  {[b \in 1..shape[1] |-> [t \in 1..shape[2] |-> <<"post", b, t>>]] :
     shape \in StartShapes}

\* What policy(inp).sample() may draw: nothing for a deterministic
\* (zero-variance) policy.
Noise(policy) == IF policy = "deterministic" THEN {0} ELSE {0, 1}

\* flatten = lambda x: x.reshape([-1] + list(x.shape[2:]))
RECURSIVE flatten(_)
flatten(x) == IF x = <<>> THEN <<>> ELSE Head(x) \o flatten(Tail(x))

\* dynamics.get_feat, policy(inp).sample() and dynamics.img_step, per element.
get_feat(state) == <<"get_feat", state>>
sample(feat, u) == <<"sample", feat, u>>
img_step(state, action) == <<"img_step", state, action>>

\* A step that records the feature of the state it has just advanced to.
step_FeatOfSuccessor(prev, u) ==
  LET succ == [k \in DOMAIN prev.succ |->
                 img_step(prev.succ[k], sample(get_feat(prev.succ[k]), u[k]))]
  IN  [succ |-> succ,
       feat |-> [k \in DOMAIN prev.succ |-> get_feat(succ[k])],
       action |-> [k \in DOMAIN prev.succ |->
                     sample(get_feat(prev.succ[k]), u[k])]]

\* step(prev, _) of _imagine over the flat batch; u is what each sample draws.
step(prev, u) ==
  [succ |-> [k \in DOMAIN prev.succ |->
               img_step(prev.succ[k], sample(get_feat(prev.succ[k]), u[k]))],
   feat |-> [k \in DOMAIN prev.succ |-> get_feat(prev.succ[k])],
   action |-> [k \in DOMAIN prev.succ |->
                 sample(get_feat(prev.succ[k]), u[k])]]

\* s[:-1]
DropLast(s) == SubSeq(s, 1, Len(s) - 1)

\* Mutant: the last successor is kept.
ImagineStates_KeepLast(start, succ) == <<start>> \o succ

\* Mutant: the successors are returned as they are.
ImagineStates_NoShift(start, succ) == succ

\* states = {k: torch.cat([start[k][None], v[:-1]], 0) for k, v in succ.items()}
ImagineStates(start, succ) == <<start>> \o DropLast(succ)

\* _imagine(start, policy, horizon) up to the call of tools.static_scan, whose
\* carry starts as (start, None, None).
ImagineCall(start, policy, horizon) ==
  /\ roll.pc \in {"idle", "done"}
  /\ roll' = [pc |-> "scan", horizon |-> horizon, policy |-> policy,
              start |-> flatten(start), i |-> 0,
              last |-> [succ |-> flatten(start), feat |-> Absent,
                        action |-> Absent],
              succ |-> <<>>, feats |-> <<>>, actions |-> <<>>]
  /\ UNCHANGED bvars
  /\ UNCHANGED <<wm, norm, est>>

\* One iteration of tools.static_scan over torch.arange(horizon): the step
\* function gets the previous carry, its outputs are collected.
ScanStep ==
  /\ roll.pc = "scan"
  /\ roll.i < roll.horizon
  /\ \E u \in [DOMAIN roll.start -> Noise(roll.policy)] :
     \E out \in {step(roll.last, u)} :
       roll' = [roll EXCEPT !.i = @ + 1,
                            !.last = out,
                            !.succ = Append(@, out.succ),
                            !.feats = Append(@, out.feat),
                            !.actions = Append(@, out.action)]
  /\ UNCHANGED bvars
  /\ UNCHANGED <<wm, norm, est>>

\* The return of _imagine, once static_scan has run over every index.
ImagineReturn ==
  /\ roll.pc = "scan"
  /\ roll.i = roll.horizon
  /\ roll' = [pc |-> "done", horizon |-> roll.horizon,
              policy |-> roll.policy, start |-> roll.start,
              img_steps |-> roll.i, last |-> roll.last,
              feats |-> roll.feats,
              states |-> ImagineStates(roll.start, roll.succ),
              actions |-> roll.actions]
  /\ UNCHANGED bvars
  /\ UNCHANGED <<wm, norm, est>>

BehaviourIdle ==
  /\ config = Absent
  /\ imag = Absent
  /\ mf = Absent
  /\ call = NoCall
  /\ calls = [o \in {"imag", "mf"} |-> 0]

ImagineInit ==
  /\ BehaviourIdle
  /\ roll = RollIdle
  /\ wm = WmIdle
  /\ norm = NormIdle
  /\ est = EstIdle

ImagineNext ==
  \/ \E start \in Starts, policy \in {"deterministic", "stochastic"},
        horizon \in 1..MaxHorizon : ImagineCall(start, policy, horizon)
  \/ ScanStep
  \/ ImagineReturn

SpecImagine == ImagineInit /\ [][ImagineNext]_vars

\* C7 (as stated): the feature, state and action sequences _imagine returns
\* each have length horizon+1.
C7_LengthHorizonPlusOne ==
  roll.pc = "done" =>
    /\ Len(roll.feats) = roll.horizon + 1
    /\ Len(roll.states) = roll.horizon + 1
    /\ Len(roll.actions) = roll.horizon + 1

\* C7 (amended): the feature, state and action sequences _imagine returns
\* each have length horizon.
C7_LengthHorizon ==
  roll.pc = "done" =>
    /\ Len(roll.feats) = roll.horizon
    /\ Len(roll.states) = roll.horizon
    /\ Len(roll.actions) = roll.horizon

\* A finished rollout of the longest horizon.
C7_Witness ==
  /\ roll.pc = "done"
  /\ roll.horizon = MaxHorizon
  /\ Len(roll.states) = MaxHorizon

\* The state one img_step reaches from the start under a deterministic policy.
OneStepFrom(start) ==
  [k \in DOMAIN start |->
     img_step(start[k], sample(get_feat(start[k]), 0))]

\* C8 (as stated): with horizon 1 and a deterministic policy the returned
\* state sequence contains img_step(start, policy(get_feat(start))).
C8_ReturnsSuccessor ==
  (roll.pc = "done" /\ roll.horizon = 1 /\ roll.policy = "deterministic") =>
    \E t \in DOMAIN roll.states : roll.states[t] = OneStepFrom(roll.start)

\* C8 (amended): with horizon 1 and a deterministic policy _imagine applies
\* img_step once, to the start state and the policy's action on
\* get_feat(start); the returned state sequence is the start state alone (the
\* successor is the scan's last carry and is not returned), the returned
\* features are get_feat(start) and the returned actions the policy's action.
C8_OneStepNotReturned ==
  (roll.pc = "done" /\ roll.horizon = 1 /\ roll.policy = "deterministic") =>
    /\ roll.img_steps = 1
    /\ roll.last.succ = OneStepFrom(roll.start)
    /\ roll.states = <<roll.start>>
    /\ roll.feats = <<[k \in DOMAIN roll.start |-> get_feat(roll.start[k])]>>
    /\ roll.actions =
         <<[k \in DOMAIN roll.start |->
              sample(get_feat(roll.start[k]), 0)]>>

\* A finished rollout of horizon 1 under a deterministic policy, from a start
\* batch of more than one element.
C8_Witness ==
  /\ roll.pc = "done"
  /\ roll.horizon = 1
  /\ roll.policy = "deterministic"
  /\ Len(roll.start) > 1

----------------------------------------------------------------------------
(***************************************************************************)
(* WorldModel.preprocess and WorldModel._train.  The caller's raw batch is *)
(* a dict from keys to addresses of arrays on a heap, so that what a call  *)
(* does to an array in place is seen through every dict that holds it.    *)
(* An array is its shape and its elements in row-major order.              *)
(***************************************************************************)
MaxWmCalls == 3

\* config.discount
Discount == Rat(1, 2)

\* (batch_size, batch_length) of the raw batch.
DataShapes == {<<1, 2>>, <<2, 2>>}

BatchKeys == {"image", "action", "reward", "discount", "is_first", "is_terminal"}
OptionalKeys == {"discount", "is_first", "is_terminal"}

Size(shape) == shape[1] * shape[2]

\* The raw arrays of a batch of the given shape whose episodes end at the last
\* step (terminal) or not.
RawArray(key, shape, terminal) ==
  [shape |-> shape,
   data |-> [i \in 1..Size(shape) |->
      CASE key = "image" -> FromInt(255)
        [] key = "discount" ->
             IF terminal /\ i % shape[2] = 0 THEN Zero ELSE One
        [] key = "is_terminal" ->
             IF terminal /\ i % shape[2] = 0 THEN One ELSE Zero
        [] key = "is_first" -> IF i % shape[2] = 1 THEN One ELSE Zero
        [] OTHER -> FromInt(i)]]

\* Elementwise operations on an array, and unsqueeze(-1).
Scale(array, c) ==
  [array EXCEPT !.data = [i \in DOMAIN @ |-> RMul(@[i], c)]]
OneMinus(array) ==
  [array EXCEPT !.data = [i \in DOMAIN @ |-> RSub(One, @[i])]]
Unsqueeze(array) == [array EXCEPT !.shape = Append(@, 1)]

\* WorldModel.preprocess(obs) on the dict obs : key -> address, over the heap:
\* the heap after the call, what was raised, and the returned dict of tensors.
preprocess(obs, heap) ==
  IF "image" \notin DOMAIN obs
  THEN [heap |-> heap, raised |-> "KeyError", ret |-> Absent]
  ELSE
    LET scaled == IF "discount" \in DOMAIN obs
                  THEN [heap EXCEPT ![obs["discount"]] = Scale(@, Discount)]
                  ELSE heap
    IN  IF "is_first" \notin DOMAIN obs \/ "is_terminal" \notin DOMAIN obs
        THEN [heap |-> scaled, raised |-> "AssertionError", ret |-> Absent]
        ELSE [heap |-> scaled,
              raised |-> None,
              ret |-> [k \in DOMAIN obs \cup {"cont"} |->
                 CASE k = "image" ->
                        Scale(heap[obs["image"]], Rat(1, 255))
                   [] k = "discount" -> Unsqueeze(scaled[obs["discount"]])
                   [] k = "cont" ->
                        Unsqueeze(OneMinus(heap[obs["is_terminal"]]))
                   [] OTHER -> heap[obs[k]]]]

\* The heads' predictions in the order preds holds them.
PredNames == <<"image", "reward", "cont">>

\* What a loss of the batch may come out as: (batch, time), with a trailing
\* axis, or transposed.
LossShapes(shape) ==
  {shape, Append(shape, 1), <<shape[2], shape[1]>>}

\* Mutant: only the KL loss is asserted on.
FirstBadLoss_KlOnly(embed_shape, kl_shape, loss_shape) ==
  IF kl_shape # embed_shape THEN "kl" ELSE None

\* The assertions of WorldModel._train, lines 129 and 143, in the order they
\* run: the first loss whose shape is not embed.shape[:2], or None.
FirstBadLoss(embed_shape, kl_shape, loss_shape) ==
  IF kl_shape # embed_shape THEN "kl"
  ELSE IF \E j \in DOMAIN PredNames : loss_shape[PredNames[j]] # embed_shape
  THEN PredNames[CHOOSE j \in DOMAIN PredNames :
                   /\ loss_shape[PredNames[j]] # embed_shape
                   /\ \A h \in 1..(j - 1) :
                        loss_shape[PredNames[h]] = embed_shape]
  ELSE None

NoWmCall ==
  [op |-> None, raised |-> None, ret |-> Absent, bad |-> None,
   kl_shape |-> Absent, loss_shape |-> Absent]

\* WorldModel.preprocess(data), as called on the caller's batch by the rollout
\* and by Behavior._data_sample.
Preprocess ==
  /\ wm.pc = "ready"
  /\ wm.last.raised = None
  /\ wm.ncalls < MaxWmCalls
  /\ \E r \in {preprocess(wm.raw, wm.heap)} :
       wm' = [wm EXCEPT !.heap = r.heap,
                        !.ncalls = @ + 1,
                        !.last = [NoWmCall EXCEPT !.op = "preprocess",
                                                  !.raised = r.raised,
                                                  !.ret = r.ret]]
  /\ UNCHANGED bvars
  /\ UNCHANGED <<roll, norm, est>>

\* WorldModel._train(data); kl_shape and loss_shape are the shapes the
\* dynamics' KL loss and the heads' log-probabilities come out with.
WmTrain(kl_shape, loss_shape) ==
  /\ wm.pc = "ready"
  /\ wm.last.raised = None
  /\ wm.ncalls < MaxWmCalls
  /\ \E r \in {preprocess(wm.raw, wm.heap)} :
     \E c \in {[NoWmCall EXCEPT !.op = "_train"]} :
       IF r.raised # None
       THEN wm' = [wm EXCEPT !.heap = r.heap, !.ncalls = @ + 1,
                             !.last = [c EXCEPT !.raised = r.raised]]
       ELSE
         \E bad \in {FirstBadLoss(wm.shape, kl_shape, loss_shape)} :
           IF bad # None
           THEN wm' = [wm EXCEPT
                         !.heap = r.heap, !.ncalls = @ + 1,
                         !.last = [c EXCEPT !.raised = "AssertionError",
                                            !.bad = bad,
                                            !.kl_shape = kl_shape,
                                            !.loss_shape = loss_shape]]
           ELSE wm' = [wm EXCEPT
                         !.heap = r.heap, !.ncalls = @ + 1,
                         !.params = Optimizer(@),
                         !.last = [c EXCEPT !.ret = <<"post", "context",
                                                      "metrics">>,
                                            !.kl_shape = kl_shape,
                                            !.loss_shape = loss_shape]]
  /\ UNCHANGED bvars
  /\ UNCHANGED <<roll, norm, est>>

\* A world model and a raw batch of the replay buffer: the required keys,
\* any of the optional ones, each key's array at its own address.
WmInit ==
  /\ BehaviourIdle
  /\ roll = RollIdle
  /\ norm = NormIdle
  /\ est = EstIdle
  /\ \E shape \in DataShapes, terminal \in BOOLEAN,
        keys \in SUBSET BatchKeys :
       /\ {"action", "reward"} \subseteq keys
       /\ wm = [pc |-> "ready", params |-> Zero, shape |-> shape,
                raw |-> [k \in keys |-> k],
                heap |-> [k \in keys |-> RawArray(k, shape, terminal)],
                ncalls |-> 0, last |-> NoWmCall]

WmNext ==
  \/ Preprocess
  \/ \E kl_shape \in LossShapes(wm.shape),
        loss_shape \in [{"image", "reward", "cont"} -> LossShapes(wm.shape)] :
       WmTrain(kl_shape, loss_shape)

SpecWM == WmInit /\ [][WmNext]_vars

\* A step that called preprocess: either operation of the world model.
WmStep == wm'.ncalls = wm.ncalls + 1

\* C9: preprocess on a batch without is_first or is_terminal fails, returns
\* nothing, and leaves the caller's batch (its dict and every array of it,
\* the discount array in particular) as it was before the call.
C9_FailsWithoutEffect ==
  [][(WmStep /\ wm'.last.op = "preprocess"
        /\ ("is_first" \notin DOMAIN wm.raw
              \/ "is_terminal" \notin DOMAIN wm.raw)) =>
       /\ wm'.last.raised # None
       /\ wm'.last.ret = Absent
       /\ wm'.raw = wm.raw
       /\ wm'.heap = wm.heap]_vars

\* C10: when the KL loss or a head's loss has not the shape (batch, time),
\* _train fails with an assertion before the optimizer step: the world-model
\* parameters are unchanged and nothing is returned.
C10_ShapeAssertion ==
  [][(WmStep /\ wm'.last.op = "_train" /\ wm'.last.kl_shape # Absent
        /\ (wm'.last.kl_shape # wm.shape
              \/ \E k \in DOMAIN wm'.last.loss_shape :
                   wm'.last.loss_shape[k] # wm.shape)) =>
       /\ wm'.last.raised = "AssertionError"
       /\ wm'.params = wm.params
       /\ wm'.last.ret = Absent]_vars

\* A _train call that failed on a head's loss after the KL loss had passed,
\* on a model that an earlier call had trained.
C10_Witness ==
  /\ wm.last.op = "_train"
  /\ wm.last.raised = "AssertionError"
  /\ wm.last.bad = "cont"
  /\ wm.last.kl_shape = wm.shape
  /\ wm.params = FromInt(2)

----------------------------------------------------------------------------
\* The return normalizer on its own: one RewardEMA object, constructed with
\* some alpha in [0, 1], and the ema_vals buffer its owner registers for it,
\* called with one batch after another.
MaxEmaCalls == 3
Alphas == {Zero, Rat(1, 4), Rat(1, 2), One}
EmaBatches == {<<20>>, <<0, 20>>, <<20, 20>>, <<-40, 0, 20>>}

\* RewardEMA.__init__(device, alpha) and the owner's
\* register_buffer("ema_vals", torch.zeros((2,))).
EmaInit ==
  /\ BehaviourIdle
  /\ roll = RollIdle
  /\ wm = WmIdle
  /\ est = EstIdle
  /\ \E alpha \in Alphas :
       norm = [pc |-> "ready", alpha |-> alpha, ema_vals |-> <<Zero, Zero>>,
               ncalls |-> 0, x |-> <<>>, offset |-> Absent, scale |-> Absent]

\* offset, scale = self.reward_ema(x, self.ema_vals)
EmaCall(x) ==
  /\ norm.pc = "ready"
  /\ norm.ncalls < MaxEmaCalls
  /\ \E r \in {RewardEMA(norm.alpha, x, norm.ema_vals)} :
       norm' = [norm EXCEPT !.ema_vals = r.ema_vals, !.ncalls = @ + 1,
                            !.x = x, !.offset = r.offset, !.scale = r.scale]
  /\ UNCHANGED bvars
  /\ UNCHANGED <<roll, wm, est>>

EmaNext == \E x \in EmaBatches : EmaCall(x)

SpecEMA == EmaInit /\ [][EmaNext]_vars

\* C11: from the zero buffer, after any sequence of calls with any batches
\* and any alpha in [0, 1], the returned scale is at least 1 and is the larger
\* of ema[1] - ema[0] and 1, and the returned offset is ema[0], both read
\* from the buffer as that call has just updated it.
C11_ScaleAndOffset ==
  (norm.pc = "ready" /\ norm.ncalls > 0) =>
    /\ RLe(One, norm.scale)
    /\ LET spread == RSub(norm.ema_vals[2], norm.ema_vals[1])
       IN  norm.scale = IF RLe(spread, One) THEN One ELSE spread
    /\ norm.offset = norm.ema_vals[1]

\* A constant batch has left the buffer with no spread and the scale is the
\* floor; and a spread batch has made the scale larger than the floor.
C11_Witness ==
  /\ norm.pc = "ready"
  /\ norm.ncalls = 2
  /\ norm.x = <<20, 20>>
  /\ norm.ema_vals[1] = norm.ema_vals[2]
  /\ norm.ema_vals[1] # Zero
  /\ norm.scale = One

\* C19: from the zero buffer and with alpha in [0, 1], ema[0] <= ema[1] after
\* every call, and a call changes the buffer to
\* alpha * quantile(batch) + (1 - alpha) * ema, component by component, and
\* in no other way.
C19_OrderedBuffer ==
  [][norm.pc = "ready" =>
       /\ RLe(norm.ema_vals[1], norm.ema_vals[2])
       /\ RLe(norm'.ema_vals[1], norm'.ema_vals[2])
       /\ \A i \in 1..2 :
            norm'.ema_vals[i] =
              RAdd(RMul(norm.alpha, Quantile(norm'.x, RewardEMA_range[i])),
                   RMul(RSub(One, norm.alpha), norm.ema_vals[i]))
       /\ norm'.alpha = norm.alpha]_vars

\* Three calls with a proper mixing weight: the buffer holds a blend of the
\* quantiles of a spread batch and of a constant one, strictly ordered.
C19_Witness ==
  /\ norm.pc = "ready"
  /\ norm.ncalls = 3
  /\ norm.alpha = Rat(1, 4)
  /\ norm.x = <<-40, 0, 20>>
  /\ norm.ema_vals[1] # norm.ema_vals[2]
  /\ RLe(norm.ema_vals[1], norm.ema_vals[2])

----------------------------------------------------------------------------
\* The return estimator: one _compute_target call of either learner on a
\* time-major trajectory of T steps (one batch entry).
MaxSteps == 3
Lambdas == {Zero, Rat(1, 2), One}
Trajectories(T, S) == [1..T -> S]
\* What the two critics predict for one step: either one is the lower, or
\* they agree.
CriticModes == {<<Zero, One>>, <<One, Zero>>, <<One, One>>}

RECURSIVE lambda_return_at(_, _, _, _, _, _)
\* return[t] of the backward scan: return[t] = reward[t] + pcont[t] *
\* ((1 - lambda) * value[t+1] + lambda * return[t+1]), where the value and the
\* return that follow the last step are both the bootstrap.
lambda_return_at(reward, value, pcont, bootstrap, lambda_, t) ==
  LET last == t = Len(reward)
      next_value == IF last THEN bootstrap ELSE value[t + 1]
      next_return == IF last THEN bootstrap
                     ELSE lambda_return_at(reward, value, pcont, bootstrap,
                                           lambda_, t + 1)
  IN  RAdd(reward[t],
           RMul(pcont[t], RAdd(RMul(RSub(One, lambda_), next_value),
                               RMul(lambda_, next_return))))

\* tools.lambda_return(reward, value, pcont, bootstrap, lambda_, axis=0)
lambda_return(reward, value, pcont, bootstrap, lambda_) ==
  [t \in 1..Len(reward) |->
     lambda_return_at(reward, value, pcont, bootstrap, lambda_, t)]

RECURSIVE cumprod_at(_, _)
cumprod_at(s, t) == IF t = 0 THEN One ELSE RMul(cumprod_at(s, t - 1), s[t])

\* torch.cumprod(s, 0)
cumprod(s) == [t \in 1..Len(s) |-> cumprod_at(s, t)]

\* The cumulative product of the discounts with the first one replaced by 1.
Weights_FirstForcedToOne(discount) == cumprod(<<One>> \o Tail(discount))

\* torch.cumprod(torch.cat([torch.ones_like(discount[:1]), discount[:-1]], 0), 0)
Weights(discount) == cumprod(<<One>> \o DropLast(discount))

\* A target built from the first critic alone.
MinValue_FirstCritic(value_1, value_2) == value_1

\* torch.min(value_1, value_2), element by element.
MinValue(value_1, value_2) ==
  [t \in 1..Len(value_1) |->
     IF RLe(value_1[t], value_2[t]) THEN value_1[t] ELSE value_2[t]]

\* A target whose rewards and discounts are not shifted against the values.
ComputeTarget_Unshifted(reward, value, discount, lambda_) ==
  LET args == [reward |-> DropLast(reward), value |-> DropLast(value),
               pcont |-> DropLast(discount), bootstrap |-> value[Len(value)],
               lambda_ |-> lambda_]
  IN  [args |-> args,
       target |-> lambda_return(args.reward, args.value, args.pcont,
                                args.bootstrap, args.lambda_),
       weights |-> Weights(discount),
       base |-> DropLast(value)]

\* The tail both _compute_target methods share: the arguments handed to
\* tools.lambda_return, and the returned (target, weights, value[:-1]).
ComputeTarget(reward, value, discount, lambda_) ==
  LET args == [reward |-> Tail(reward), value |-> DropLast(value),
               pcont |-> Tail(discount), bootstrap |-> value[Len(value)],
               lambda_ |-> lambda_]
  IN  [args |-> args,
       target |-> lambda_return(args.reward, args.value, args.pcont,
                                args.bootstrap, args.lambda_),
       weights |-> Weights(discount),
       base |-> DropLast(value)]

\* config.discount_lambda is fixed at construction.
TargetInit ==
  /\ BehaviourIdle
  /\ roll = RollIdle
  /\ wm = WmIdle
  /\ norm = NormIdle
  /\ \E lambda_ \in Lambdas : est = [pc |-> "ready", lambda_ |-> lambda_]

Returned(obj, reward, discount, value_1, value_2, value, r) ==
  [pc |-> "done", lambda_ |-> est.lambda_, obj |-> obj, reward |-> reward,
   discount |-> discount, value_1 |-> value_1, value_2 |-> value_2,
   value |-> value, args |-> r.args, target |-> r.target,
   weights |-> r.weights, base |-> r.base]

\* ImagBehavior._compute_target(imag_feat, imag_state, reward): the cont head
\* is always among the world model's heads; cont is its predicted mean and
\* value the critic's mode on imag_feat.
ImagComputeTarget(reward, cont, value) ==
  /\ est.pc = "ready"
  /\ Len(cont) = Len(reward)
  /\ Len(value) = Len(reward)
  /\ \E discount \in {[t \in 1..Len(cont) |-> RMul(Discount, cont[t])]} :
       est' = Returned("imag", reward, discount, value, Absent, value,
                       ComputeTarget(reward, value, discount, est.lambda_))
  /\ UNCHANGED bvars
  /\ UNCHANGED <<roll, wm, norm>>

\* Behavior._compute_target(feat, state, reward, discount): value_1 and
\* value_2 are the two critics' modes on feat.
MfComputeTarget(reward, discount, value_1, value_2) ==
  /\ est.pc = "ready"
  /\ Len(discount) = Len(reward)
  /\ Len(value_1) = Len(reward)
  /\ Len(value_2) = Len(reward)
  /\ \E value \in {MinValue(value_1, value_2)} :
       est' = Returned("mf", reward, discount, value_1, value_2, value,
                       ComputeTarget(reward, value, discount, est.lambda_))
  /\ UNCHANGED bvars
  /\ UNCHANGED <<roll, wm, norm>>

TargetNext ==
  \/ /\ est.pc = "ready"
     /\ \E T \in 2..MaxSteps :
          \E reward \in Trajectories(T, {Zero, One}),
             cont \in Trajectories(T, {Zero, One}),
             value \in Trajectories(T, {Zero, One}) :
            ImagComputeTarget(reward, cont, value)
  \/ /\ est.pc = "ready"
     /\ \E T \in 2..MaxSteps :
          \E reward \in Trajectories(T, {Zero, One}),
             discount \in Trajectories(T, {Zero, Discount}),
             modes \in Trajectories(T, CriticModes) :
            MfComputeTarget(reward, discount,
                            [t \in 1..T |-> modes[t][1]],
                            [t \in 1..T |-> modes[t][2]])

SpecTarget == TargetInit /\ [][TargetNext]_vars

RECURSIVE RProd(_, _, _)
\* s[a] * ... * s[b], and 1 for an empty range.
RProd(s, a, b) == IF a > b THEN One ELSE RMul(s[a], RProd(s, a + 1, b))

RECURSIVE RSum(_, _, _)
\* f[a] + ... + f[b], and 0 for an empty range.
RSum(f, a, b) == IF a > b THEN Zero ELSE RAdd(f[a], RSum(f, a + 1, b))

\* The rewards from step a on, each discounted back to step a, and the
\* bootstrap discounted back from behind the last step.
MonteCarlo(reward, pcont, bootstrap, a) ==
  LET n == Len(reward)
      term == [k \in 1..n |->
                 IF k < a THEN Zero
                 ELSE RMul(RProd(pcont, a, k - 1), reward[k])]
  IN  RAdd(RSum(term, a, n), RMul(RProd(pcont, a, n), bootstrap))

\* C12: with lambda = 0 every return is the one-step target
\* reward[t] + discount[t] * value[t+1] (the bootstrap behind the last step),
\* and with lambda = 1 it is the discounted sum of the rewards that follow
\* plus the discounted bootstrap, whatever the values in between.
C12_LambdaReductions ==
  est.pc = "done" =>
    LET a == est.args
        n == Len(a.reward)
        next == [t \in 1..n |-> IF t = n THEN a.bootstrap ELSE a.value[t + 1]]
    IN  /\ Len(est.target) = n
        /\ n = Len(est.reward) - 1
        /\ est.lambda_ = Zero =>
             \A t \in 1..n :
               est.target[t] = RAdd(a.reward[t], RMul(a.pcont[t], next[t]))
        /\ est.lambda_ = One =>
             \A t \in 1..n :
               est.target[t] = MonteCarlo(a.reward, a.pcont, a.bootstrap, t)
        /\ \A t \in 1..n :
             /\ a.reward[t] = est.reward[t + 1]
             /\ a.pcont[t] = est.discount[t + 1]
             /\ next[t] = est.value[t + 1]

\* A full-length trajectory under lambda = 1 whose first return differs from
\* the one-step target: an intermediate value is 1, the bootstrap 0.
C12_Witness ==
  /\ est.pc = "done"
  /\ est.lambda_ = One
  /\ Len(est.reward) = MaxSteps
  /\ est.value[2] = One
  /\ est.value[MaxSteps] = Zero
  /\ \A t \in 1..MaxSteps : est.discount[t] = Discount
  /\ est.target[1] #
       RAdd(est.reward[2], RMul(est.discount[2], est.value[2]))

\* C13: in the replay learner the values handed to the return estimator, the
\* bootstrap among them, and the returned baseline are the smaller of the two
\* critics' modes at every step.
C13_MinOfCritics ==
  (est.pc = "done" /\ est.obj = "mf") =>
    LET T == Len(est.reward)
        lower == [t \in 1..T |->
                    IF RLe(est.value_2[t], est.value_1[t])
                    THEN est.value_2[t] ELSE est.value_1[t]]
    IN  /\ \A t \in 1..(T - 1) :
             /\ est.args.value[t] = lower[t]
             /\ est.base[t] = lower[t]
        /\ Len(est.args.value) = T - 1
        /\ Len(est.base) = T - 1
        /\ est.args.bootstrap = lower[T]
        /\ est.target = lambda_return(est.args.reward, est.args.value,
                                      est.args.pcont, est.args.bootstrap,
                                      est.lambda_)

\* The first critic is the lower one at the first step and the higher one at
\* the last: the target takes the second critic's bootstrap.
C13_Witness ==
  /\ est.pc = "done"
  /\ est.obj = "mf"
  /\ Len(est.reward) = MaxSteps
  /\ est.value_1[1] = Zero /\ est.value_2[1] = One
  /\ est.value_1[MaxSteps] = One /\ est.value_2[MaxSteps] = Zero
  /\ est.args.bootstrap = Zero
  /\ est.base[1] = Zero

\* C14 as stated: weights[0] = 1 and weights[t] is the product of
\* discount[1] .. discount[t], the first discount replaced by 1.
C14_WeightsSkipFirstDiscount ==
  est.pc = "done" =>
    /\ est.weights[1] = One
    /\ \A s \in 2..Len(est.discount) :
         est.weights[s] = RProd(est.discount, 2, s)

\* C14: weights[0] = 1 and weights[t] is the product of discount[0] ..
\* discount[t-1]: a one is put in front of the discounts and the last of
\* them is dropped before the cumulative product.
C14_WeightsShifted ==
  est.pc = "done" =>
    /\ Len(est.weights) = Len(est.discount)
    /\ est.weights[1] = One
    /\ \A s \in 2..Len(est.discount) :
         est.weights[s] = RProd(est.discount, 1, s - 1)

\* The first discount is 0 and the later ones are not: every weight after the
\* first is 0.
C14_Witness ==
  /\ est.pc = "done"
  /\ Len(est.discount) = MaxSteps
  /\ est.discount[1] = Zero
  /\ \A s \in 2..MaxSteps : est.discount[s] = Discount
  /\ \A s \in 2..MaxSteps : est.weights[s] = Zero

----------------------------------------------------------------------------
\* C15: in what _imagine returns, states[0] is the flattened start and, at
\* every index t and for every batch entry, feats[t] is get_feat of states[t],
\* actions[t] is a sample of the policy on feats[t], and the next state, when
\* there is one, is img_step of states[t] and actions[t]; and while the scan
\* runs, each step is the next index in order and works on the successor the
\* step before it left.
C15_RolloutChain ==
  [][/\ roll'.pc = "done" =>
          /\ roll'.states[1] = roll'.start
          /\ \A t \in 1..Len(roll'.states), k \in DOMAIN roll'.start :
               /\ roll'.feats[t][k] = get_feat(roll'.states[t][k])
               /\ \E u \in Noise(roll'.policy) :
                    roll'.actions[t][k] = sample(roll'.feats[t][k], u)
               /\ t < Len(roll'.states) =>
                    roll'.states[t + 1][k] =
                      img_step(roll'.states[t][k], roll'.actions[t][k])
     /\ (roll.pc = "scan" /\ roll'.pc = "scan") =>
          /\ roll'.i = roll.i + 1
          /\ Len(roll'.feats) = roll'.i
          /\ \A k \in DOMAIN roll.start :
               /\ roll'.last.feat[k] = get_feat(roll.last.succ[k])
               /\ roll'.last.succ[k] =
                    img_step(roll.last.succ[k], roll'.last.action[k])
          /\ roll'.succ = Append(roll.succ, roll'.last.succ)]_vars

\* A full-horizon rollout of two batch entries under a stochastic policy
\* whose samples differ between the entries and between the steps.
C15_Witness ==
  /\ roll.pc = "done"
  /\ roll.horizon = MaxHorizon
  /\ roll.policy = "stochastic"
  /\ Len(roll.start) = 2
  /\ roll.actions[1][1] = sample(get_feat(roll.start[1]), 1)
  /\ roll.actions[1][2] = sample(get_feat(roll.start[2]), 0)
  /\ roll.actions[2][1] = sample(roll.feats[2][1], 0)
  /\ roll.states[MaxHorizon][2] =
       img_step(roll.states[MaxHorizon - 1][2],
                roll.actions[MaxHorizon - 1][2])

----------------------------------------------------------------------------
\* C16: wherever _update_slow_target is called, a blending call leaves each
\* slow target at fraction * live + (1 - fraction) * slow and every live
\* critic and the actor as they were; and in a _train call whose update does
\* not blend, nothing (no optimizer step, no failure on the way) changes a
\* slow target, while in one that blends the slow targets end the call at the
\* blend of the values the call started with.
C16_BlendFrame ==
  [][config.slow_target =>
       LET f == config.slow_target_fraction
           due(self) == self.updates % config.slow_target_update = 0
           mixed(live, slow) == RAdd(RMul(f, live), RMul(RSub(One, f), slow))
           after_i == ImagUpdateSlowTarget(imag)
           after_m == MfUpdateSlowTarget(mf)
       IN  /\ after_i.value = imag.value
           /\ after_i.actor = imag.actor
           /\ after_m.value_1 = mf.value_1
           /\ after_m.value_2 = mf.value_2
           /\ after_m.actor = mf.actor
           /\ after_i.slow_value =
                IF due(imag) THEN mixed(imag.value, imag.slow_value)
                ELSE imag.slow_value
           /\ after_m.slow_value_1 =
                IF due(mf) THEN mixed(mf.value_1, mf.slow_value_1)
                ELSE mf.slow_value_1
           /\ after_m.slow_value_2 =
                IF due(mf) THEN mixed(mf.value_2, mf.slow_value_2)
                ELSE mf.slow_value_2
           /\ ImagStep =>
                /\ imag'.slow_value = after_i.slow_value
                /\ mf' = mf
           /\ MfStep =>
                /\ mf'.slow_value_1 = after_m.slow_value_1
                /\ mf'.slow_value_2 = after_m.slow_value_2
                /\ imag' = imag]_vars

\* With fraction 1/4 and period 2, after three calls in which both critic
\* optimizers stepped: the slow targets were blended in the first and the
\* third call and lag the critics they follow.
C16_Witness ==
  /\ config.slow_target
  /\ config.slow_target_fraction = Rat(1, 4)
  /\ config.slow_target_update = 2
  /\ call.obj = "mf"
  /\ call.steps["mf_value_1"] = 1
  /\ mf.updates = 3
  /\ mf.value_1 = FromInt(3)
  /\ mf.slow_value_1 = Rat(1, 2)
  /\ mf.slow_value_2 = Rat(3, 2)

----------------------------------------------------------------------------
\* C17: in every call of Behavior._train in which the actor optimizer is
\* stepped, the loss it gets was computed in that call, behind the open gate
\* of line 563: the optimizer is never stepped with an unassigned loss nor
\* with one of an earlier call.
C17_SteppedWithOwnLoss ==
  (call.obj = "mf" /\ call.steps["mf_actor"] = 1) =>
    /\ call.actor_loss # Unbound
    /\ call.returned_loss # Unbound
    /\ call.actor_loss = MfActorLoss(call.returned_loss)
    /\ call.n = calls["mf"]
    /\ call.n % config.mf_policy_freq = 0
    /\ call.n % 2 = 0

\* The second call with mf_policy_freq = 2: both gates are open and the
\* actor optimizer is stepped.
C17_Witness ==
  /\ call.obj = "mf"
  /\ call.n = 2
  /\ config.mf_policy_freq = 2
  /\ call.steps["mf_actor"] = 1
  /\ call.actor_loss # Unbound
  /\ mf.actor = One

----------------------------------------------------------------------------
\* C18: no call that runs preprocess changes the caller's raw batch, and so,
\* however many such calls the same batch has been through, the 'discount'
\* preprocess returns is the discount as the replay buffer delivered it times
\* config.discount, once.
C18_DiscountScaledOnce ==
  [][WmStep =>
       /\ wm'.raw = wm.raw
       /\ wm'.heap = wm.heap
       /\ (wm'.last.op = "preprocess" /\ wm'.last.raised = None
             /\ "discount" \in DOMAIN wm.raw) =>
            \E terminal \in BOOLEAN :
              wm'.last.ret["discount"] =
                Unsqueeze(Scale(RawArray("discount", wm.shape, terminal),
                                Discount))]_vars

====
